---- MODULE Spec2Model ----
(***************************************************************************)
(* Naive Bayes text classifier (main.go): the n-gram tokenizer SplitWords, *)
(* the Classifier/Class frequency model, Train, GetPrior, Classify and the *)
(* demo driver main.                                                       *)
(*                                                                         *)
(* A string is a sequence of one-character strings, so that strings.Split  *)
(* and strings.Join are modelled by what they do.  The letter "é" of the   *)
(* demo corpus is written "E".  A float64 is modelled bit for bit          *)
(* (mantissa and exponent, round to nearest even, gradual underflow), and  *)
(* the order in which Go ranges over a map is a nondeterministic choice.   *)
(***************************************************************************)
EXTENDS Integers, Sequences, FiniteSets

\* Bounds of the exploration.
\* MaxLen: longest sentence, in characters, an API caller passes.
\* MaxDocs: most Train calls an API caller makes.
\* MaxSize: largest NSplit an API caller constructs a Classifier with.
\* MaxSplitLen, MaxSplitSize: longest sentence and largest size a direct
\* caller of SplitWords passes.
MaxLen == 1
MaxDocs == 3
MaxSize == 2
MaxSplitLen == 4
MaxSplitSize == 3

Alphabet == {"a", " "}
SplitAlphabet == {"a", "b", " "}
Labels == {"bom", "ruim"}

\* The corpus and the query of main.
Corpus == <<
    <<"bom",
      <<"e", "u", " ", "t", "e", " ", "a", "d", "o", "r", "o">>>>,
    <<"bom",
      <<"e", "u", " ", "t", "e", " ", "a", "m", "o">>>>,
    <<"bom",
      <<"e", "u", " ", "a", "m", "o", " ", "b", "a", "t", "a", "t", "a", "s", " ", "f", "r", "i", "t", "a", "s">>>>,
    <<"bom",
      <<"e", "u", " ", "a", "m", "o", " ", "b", "o", "l", "o">>>>,
    <<"bom",
      <<"v", "o", "c", "e", " ", "E", " ", "d", "e", "m", "a", "i", "s">>>>,
    <<"bom",
      <<"b", "o", "l", "o", " ", "q", "u", "e", " ", "E", " ", "d", "e", "m", "a", "i", "s">>>>,
    <<"ruim",
      <<"p", "e", "i", "x", "e", " ", "E", " ", "r", "u", "i", "m">>>>,
    <<"ruim",
      <<"e", "u", " ", "t", "e", " ", "o", "d", "e", "i", "o">>>>,
    <<"ruim",
      <<"e", "u", " ", "q", "u", "e", "r", "o", " ", "v", "e", "r", " ", "q", "u", "e", "i", "m", "a", "r">>>>,
    <<"ruim",
      <<"e", "u", " ", "q", "u", "e", "r", "o", " ", "E", " ", "q", "u", "e", " ", "s", "e", " ", "e", "x", "p", "l", "o", "d", "a">>>>,
    <<"ruim",
      <<"e", "u", " ", "a", "c", "h", "o", " ", "q", "u", "e", " ", "i", "s", "s", "o", " ", "E", " ", "m", "u", "i", "t", "o", " ", "r", "u", "i", "m">>>>,
    <<"ruim",
      <<"o", "d", "e", "i", "o", " ", "f", "i", "c", "a", "r", " ", "p", "a", "r", "a", "d", "o">>>>
>>

Query ==
    <<"n", "a", "o", " ", "a", "c", "h", "e", "i", " ", "o", " ", "f", "i", "l", "m", "e", " ", "r", "u", "i", "m">>

Sentences == UNION {[1..k -> Alphabet] : k \in 0..MaxLen}

SplitSentences == UNION {[1..k -> SplitAlphabet] : k \in 0..MaxSplitLen}

EmptyMap == [x \in {} |-> 0]

----------------------------------------------------------------------------
\* float64.  A finite non-negative value is [kind |-> "num", m, e], standing
\* for mantissa * 2^e: the mantissa is an integer below 2^53 held as four
\* limbs of 14 bits, least significant first; it is at least 2^52 for a normal
\* number, and e is MinExp for a subnormal number and for 0.  Operations round
\* to nearest, ties to even.  The operands the program divides are counts,
\* which float64 holds exactly (below 2^15 here).

LimbBits == 14
Base == 16384
MantBits == 53
MinExp == -1074
MaxExp == 971

FZero == [kind |-> "num", m |-> <<0, 0, 0, 0>>, e |-> MinExp]
FInf == [kind |-> "inf", m |-> <<0, 0, 0, 0>>, e |-> 0]
FNaN == [kind |-> "nan", m |-> <<0, 0, 0, 0>>, e |-> 0]

\* limb q (from 0) of the limbs P, 0 beyond its end
Lim(P, q) == IF q + 1 <= Len(P) THEN P[q + 1] ELSE 0

\* bits pos .. pos+13 of P
Chunk(P, pos) ==
    LET q == pos \div LimbBits
        s == pos % LimbBits
    IN  (Lim(P, q) \div 2^s) + (Lim(P, q + 1) % 2^s) * 2^(LimbBits - s)

Bit(P, pos) == (Lim(P, pos \div LimbBits) \div 2^(pos % LimbBits)) % 2

\* some bit of P below pos is set
LowBits(P, pos) ==
    \/ \E q \in 0..((pos \div LimbBits) - 1) : Lim(P, q) # 0
    \/ Lim(P, pos \div LimbBits) % 2^(pos % LimbBits) # 0

RECURSIVE Bits(_)
Bits(n) == IF n = 0 THEN 0 ELSE 1 + Bits(n \div 2)

BitLen(P) ==
    IF \A i \in 1..Len(P) : P[i] = 0 THEN 0
    ELSE LET i == CHOOSE k \in 1..Len(P) :
                      P[k] # 0 /\ \A j \in (k + 1)..Len(P) : P[j] = 0
         IN  LimbBits * (i - 1) + Bits(P[i])

\* the mantissa q plus one
Inc(q) ==
    IF q[1] + 1 < Base THEN <<q[1] + 1, q[2], q[3], q[4]>>
    ELSE IF q[2] + 1 < Base THEN <<0, q[2] + 1, q[3], q[4]>>
    ELSE IF q[3] + 1 < Base THEN <<0, 0, q[3] + 1, q[4]>>
    ELSE <<0, 0, 0, q[4] + 1>>

\* the float of the truncated mantissa q at exponent e, rounded up or not
Finish(q, up, e) ==
    LET m == IF up THEN Inc(q) ELSE q
        carried == m[4] = 2^(MantBits - 3 * LimbBits)
        mm == IF carried THEN <<0, 0, 0, 2^(MantBits - 1 - 3 * LimbBits)>> ELSE m
        ee == IF carried THEN e + 1 ELSE e
    IN  IF mm = <<0, 0, 0, 0>> THEN FZero
        ELSE IF ee > MaxExp THEN FInf
        ELSE [kind |-> "num", m |-> mm, e |-> ee]

\* the value P * 2^e without its lowest shift bits, rounded
Round(P, e, shift) ==
    LET q == <<Chunk(P, shift), Chunk(P, shift + LimbBits),
               Chunk(P, shift + 2 * LimbBits), Chunk(P, shift + 3 * LimbBits)>>
        up == /\ shift >= 1
              /\ Bit(P, shift - 1) = 1
              /\ (LowBits(P, shift - 1) \/ q[1] % 2 = 1)
    IN  Finish(q, up, e + shift)

\* a * 2^i and b * 2^j with b * 2^j <= a * 2^i < 2 * b * 2^j, and i - j
RECURSIVE NormDiv(_, _, _)
NormDiv(a, b, e) ==
    IF a < b THEN NormDiv(2 * a, b, e - 1)
    ELSE IF a >= 2 * b THEN NormDiv(a, 2 * b, e + 1)
    ELSE <<a, b, e>>

\* float64(a) / float64(b) for counts a and b
FDiv(a, b) ==
    IF b = 0 THEN (IF a = 0 THEN FNaN ELSE FInf)
    ELSE IF a = 0 THEN FZero
    ELSE LET n == NormDiv(a, b, 0)
             t3 == n[1] * 2^(MantBits - 1 - 3 * LimbBits)
             t2 == (t3 % n[2]) * Base
             t1 == (t2 % n[2]) * Base
             t0 == (t1 % n[2]) * Base
             q == <<t0 \div n[2], t1 \div n[2], t2 \div n[2], t3 \div n[2]>>
             r == t0 % n[2]
             up == 2 * r > n[2] \/ (2 * r = n[2] /\ q[1] % 2 = 1)
         IN  Finish(q, up, n[3] - (MantBits - 1))

\* the digits of the column sums cols, carries propagated
RECURSIVE Carry(_, _, _)
Carry(cols, i, carry) ==
    IF i > Len(cols) THEN <<carry>>
    ELSE <<(cols[i] + carry) % Base>>
         \o Carry(cols, i + 1, (cols[i] + carry) \div Base)

\* the product of two mantissas, as eight limbs
MulLimbs(a, b) ==
    Carry(<<a[1] * b[1],
            a[1] * b[2] + a[2] * b[1],
            a[1] * b[3] + a[2] * b[2] + a[3] * b[1],
            a[1] * b[4] + a[2] * b[3] + a[3] * b[2] + a[4] * b[1],
            a[2] * b[4] + a[3] * b[3] + a[4] * b[2],
            a[3] * b[4] + a[4] * b[3],
            a[4] * b[4]>>, 1, 0)

Max(a, b) == IF a >= b THEN a ELSE b

\* x * y
FMul(x, y) ==
    IF x.kind = "nan" \/ y.kind = "nan" THEN FNaN
    ELSE IF x.kind = "inf" \/ y.kind = "inf"
    THEN (IF x = FZero \/ y = FZero THEN FNaN ELSE FInf)
    ELSE LET P == MulLimbs(x.m, y.m)
             e == x.e + y.e
             shift == Max(BitLen(P) - MantBits, MinExp - e)
             pad == IF shift >= 0 THEN 0 ELSE ((0 - shift) \div LimbBits) + 1
         IN  IF BitLen(P) = 0 THEN FZero
             ELSE Round([i \in 1..pad |-> 0] \o P, e - LimbBits * pad,
                        shift + LimbBits * pad)

\* x > y
FGreater(x, y) ==
    IF x.kind = "nan" \/ y.kind = "nan" THEN FALSE
    ELSE IF y.kind = "inf" THEN FALSE
    ELSE IF x.kind = "inf" THEN TRUE
    ELSE \/ x.e > y.e
         \/ /\ x.e = y.e
            /\ \E i \in 1..4 :
                  /\ x.m[i] > y.m[i]
                  /\ \A j \in (i + 1)..4 : x.m[j] = y.m[j]

----------------------------------------------------------------------------
\* strings.Split(sentence, " "): cur is the token being read.
RECURSIVE SplitFrom(_, _, _)
SplitFrom(s, i, cur) ==
    IF i > Len(s) THEN <<cur>>
    ELSE IF s[i] = " " THEN <<cur>> \o SplitFrom(s, i + 1, <<>>)
    ELSE SplitFrom(s, i + 1, Append(cur, s[i]))

Split(s) == SplitFrom(s, 1, <<>>)

\* strings.Join(words, " ")
RECURSIVE Join(_)
Join(words) ==
    IF Len(words) = 0 THEN <<>>
    ELSE IF Len(words) = 1 THEN words[1]
    ELSE words[1] \o <<" ">> \o Join(Tail(words))

\* Mutant: the loop stops one window early (i+size < len(words)).
RECURSIVE WindowsStrict(_, _, _)
WindowsStrict(size, words, i) ==
    IF i + size < Len(words)
    THEN <<Join(SubSeq(words, i + 1, i + size))>> \o WindowsStrict(size, words, i + 1)
    ELSE <<>>

\* the loop of SplitWords: for i := 0; i+size <= len(words); i++
RECURSIVE Windows(_, _, _)
Windows(size, words, i) ==
    IF i + size <= Len(words)
    THEN <<Join(SubSeq(words, i + 1, i + size))>> \o Windows(size, words, i + 1)
    ELSE <<>>

\* Mutant: an empty sentence yields no gram at all.
SplitWordsSkipEmpty(size, sentence) ==
    LET words == Split(sentence)
    IN  IF Len(sentence) = 0 THEN <<>>
        ELSE IF Len(words) <= size THEN <<Join(words)>>
        ELSE Windows(size, words, 0)

SplitWords(size, sentence) ==
    LET words == Split(sentence)
    IN  IF Len(words) <= size THEN <<Join(words)>>
        ELSE Windows(size, words, 0)

----------------------------------------------------------------------------
VARIABLES
    NSplit,       \* Classifier.NSplit
    Documents,    \* Classifier.Documents
    Classes,      \* Classifier.Classes: label -> [Documents, Words, WordFreq]
    UniqueWords,  \* Classifier.UniqueWords: gram -> count
    trainCalls,   \* number of Train calls made so far
    last,         \* the last call: its arguments and what it returned
    pc,           \* "api": a library caller; "main"/"done": the driver main;
                  \* "split": a caller of SplitWords alone
    output        \* what main printed

vars == <<NSplit, Documents, Classes, UniqueWords, trainCalls, last, pc, output>>

model == <<NSplit, Documents, Classes, UniqueWords>>

\* value of m[key] in Go: the zero value when the key is absent
Get(m, key) == IF key \in DOMAIN m THEN m[key] ELSE 0

\* m[key]++
Incr(m, key) ==
    [k \in DOMAIN m \cup {key} |-> IF k = key THEN Get(m, key) + 1 ELSE m[k]]

\* &Class{WordFreq: make(map[string]float64)}
NewClass == [Documents |-> 0, Words |-> <<>>, WordFreq |-> EmptyMap]

\* Mutant: a class created by Train starts with one document already counted.
TrainClassCountedTwice(cls, class) ==
    LET made == [c \in DOMAIN cls \cup {class} |->
                    IF c \in DOMAIN cls THEN cls[c]
                    ELSE [NewClass EXCEPT !.Documents = 1]]
    IN  [made EXCEPT ![class].Documents = @ + 1]

\* Mutant: only an existing class has its document counted.
TrainClassElse(cls, class) ==
    IF class \in DOMAIN cls
    THEN [cls EXCEPT ![class].Documents = @ + 1]
    ELSE [c \in DOMAIN cls \cup {class} |->
             IF c \in DOMAIN cls THEN cls[c] ELSE NewClass]

\* Train, the class part: create the class when new, count the document.
TrainClass(cls, class) ==
    LET made == [c \in DOMAIN cls \cup {class} |->
                    IF c \in DOMAIN cls THEN cls[c] ELSE NewClass]
    IN  [made EXCEPT ![class].Documents = @ + 1]

\* Mutant: the frequency of a word is set to 1 instead of incremented.
TrainWordSetOne(uw, cl, word) ==
    [uw |-> Incr(uw, word),
     cl |-> [cl EXCEPT !.Words = Append(@, word),
                       !.WordFreq = [k \in DOMAIN @ \cup {word} |->
                                        IF k = word THEN 1 ELSE @[k]]]]

\* Mutant: the word is not entered in the vocabulary.
TrainWordNoVocabulary(uw, cl, word) ==
    [uw |-> uw,
     cl |-> [cl EXCEPT !.Words = Append(@, word),
                       !.WordFreq = Incr(@, word)]]

\* Train, the body of the loop over the grams.
TrainWord(uw, cl, word) ==
    [uw |-> Incr(uw, word),
     cl |-> [cl EXCEPT !.Words = Append(@, word),
                       !.WordFreq = Incr(@, word)]]

\* Train, the loop: for _, word := range words
RECURSIVE TrainWords(_, _, _, _)
TrainWords(uw, cl, words, i) ==
    IF i > Len(words) THEN [uw |-> uw, cl |-> cl]
    ELSE LET r == TrainWord(uw, cl, words[i])
         IN  TrainWords(r.uw, r.cl, words, i + 1)

Call(name, class, sentence, words, result, prior, panicked) ==
    [name |-> name, class |-> class, sentence |-> sentence, words |-> words,
     result |-> result, prior |-> prior, panicked |-> panicked]

Train(class, sentence) ==
    LET cls == TrainClass(Classes, class)
        words == SplitWords(NSplit, sentence)
        r == TrainWords(UniqueWords, cls[class], words, 1)
    IN  /\ Documents' = Documents + 1
        /\ Classes' = [cls EXCEPT ![class] = r.cl]
        /\ UniqueWords' = r.uw
        /\ trainCalls' = trainCalls + 1
        /\ last' = Call("Train", class, sentence, words, EmptyMap, FZero, FALSE)
        /\ UNCHANGED NSplit

\* c.Classes[class].Documents / c.Documents
Prior(class) == FDiv(Classes[class].Documents, Documents)

\* GetPrior panics on a label that is not in Classes (nil *Class).
GetPrior(class) ==
    /\ last' = IF class \in DOMAIN Classes
               THEN Call("GetPrior", class, <<>>, <<>>, EmptyMap, Prior(class), FALSE)
               ELSE Call("GetPrior", class, <<>>, <<>>, EmptyMap, FZero, TRUE)
    /\ UNCHANGED <<model, trainCalls>>

\* Mutant: no add-one smoothing.
FactorNoSmoothing(frequency, classWordCount, uniqueWordCount) ==
    FDiv(frequency, classWordCount + uniqueWordCount)

\* Mutant: the vocabulary size is left out of the denominator.
FactorNoVocabulary(frequency, classWordCount, uniqueWordCount) ==
    FDiv(frequency + 1, classWordCount)

\* (frequency + 1.0) / (classWordCount + uniqueWordCount)
Factor(frequency, classWordCount, uniqueWordCount) ==
    FDiv(frequency + 1, classWordCount + uniqueWordCount)

Range(seq) == {seq[i] : i \in 1..Len(seq)}

\* the map wProbabilities of one class: one entry per distinct word
wProbabilities(data, words) ==
    [word \in Range(words) |->
        Factor(Get(data.WordFreq, word), Len(data.Words),
               Cardinality(DOMAIN UniqueWords))]

\* for _, value := range wProbabilities { result = result * value }: the
\* values result can end with, one for each order the range can take
RECURSIVE Multiply(_, _, _)
Multiply(result, wp, keys) ==
    IF keys = {} THEN {result}
    ELSE UNION {Multiply(FMul(result, wp[k]), wp, keys \ {k}) : k \in keys}

\* the values Classify can store for one class
ClassProbability(class, words) ==
    LET wp == wProbabilities(Classes[class], words)
    IN  Multiply(Prior(class), wp, DOMAIN wp)

\* the mappings over the classes cs with one of its values for each class
RECURSIVE Mappings(_, _)
Mappings(cs, words) ==
    IF cs = {} THEN {EmptyMap}
    ELSE LET c == CHOOSE x \in cs : TRUE
         IN  {[k \in DOMAIN f \cup {c} |-> IF k = c THEN v ELSE f[k]] :
                 f \in Mappings(cs \ {c}, words),
                 v \in ClassProbability(c, words)}

\* the mappings Classify can return
cProbabilities(words) == Mappings(DOMAIN Classes, words)

\* Mutant: looking a word up in WordFreq enters it with frequency 0.
ClassifyInserting(sentence) ==
    LET words == SplitWords(NSplit, sentence)
    IN  /\ \E result \in cProbabilities(words) :
              last' = Call("Classify", "", sentence, words, result, FZero, FALSE)
        /\ Classes' = [class \in DOMAIN Classes |->
                [Classes[class] EXCEPT !.WordFreq =
                    [k \in DOMAIN @ \cup Range(words) |-> Get(@, k)]]]
        /\ UNCHANGED <<NSplit, Documents, UniqueWords, trainCalls>>

Classify(sentence) ==
    LET words == SplitWords(NSplit, sentence)
    IN  /\ \E result \in cProbabilities(words) :
              last' = Call("Classify", "", sentence, words, result, FZero, FALSE)
        /\ UNCHANGED <<model, trainCalls>>

----------------------------------------------------------------------------
NewClassifier(n) ==
    /\ NSplit = n
    /\ Documents = 0
    /\ Classes = EmptyMap
    /\ UniqueWords = EmptyMap

\* A library caller with some NSplit, the driver main (NSplit 1), or a caller
\* about to pass last.sentence and the size NSplit to SplitWords.
Init ==
    /\ \/ /\ pc = "api"
          /\ \E n \in 1..MaxSize : NewClassifier(n)
          /\ last = Call("NewClassifier", "", <<>>, <<>>, EmptyMap, FZero, FALSE)
       \/ /\ pc = "main"
          /\ NewClassifier(1)
          /\ last = Call("NewClassifier", "", <<>>, <<>>, EmptyMap, FZero, FALSE)
       \/ /\ pc = "split"
          /\ \E n \in 1..MaxSplitSize : NewClassifier(n)
          /\ \E sentence \in SplitSentences :
                last = Call("NewClassifier", "", sentence, <<>>, EmptyMap, FZero, FALSE)
    /\ trainCalls = 0
    /\ output = ""

ApiTrain ==
    /\ pc = "api"
    /\ trainCalls < MaxDocs
    /\ \E class \in Labels, sentence \in Sentences : Train(class, sentence)
    /\ UNCHANGED <<pc, output>>

ApiGetPrior ==
    /\ pc = "api"
    /\ \E class \in Labels : GetPrior(class)
    /\ UNCHANGED <<pc, output>>

ApiClassify ==
    /\ pc = "api"
    /\ \E sentence \in Sentences : Classify(sentence)
    /\ UNCHANGED <<pc, output>>

\* SplitWords called on its own
CallSplitWords ==
    /\ pc = "split"
    /\ last.name = "NewClassifier"
    /\ last' = Call("SplitWords", "", last.sentence,
                    SplitWords(NSplit, last.sentence), EmptyMap, FZero, FALSE)
    /\ UNCHANGED <<model, trainCalls, pc, output>>

\* main: the twelve Train calls, in order
MainTrain ==
    /\ pc = "main"
    /\ trainCalls < Len(Corpus)
    /\ Train(Corpus[trainCalls + 1][1], Corpus[trainCalls + 1][2])
    /\ UNCHANGED <<pc, output>>

\* main: Classify the query and print the winner
MainClassify ==
    /\ pc = "main"
    /\ trainCalls = Len(Corpus)
    /\ Classify(Query)
    /\ output' = IF FGreater(last'.result["bom"], last'.result["ruim"])
                 THEN "bom" ELSE "ruim"
    /\ pc' = "done"

Next ==
    \/ ApiTrain
    \/ ApiGetPrior
    \/ ApiClassify
    \/ CallSplitWords
    \/ MainTrain
    \/ MainClassify

Spec == Init /\ [][Next]_vars

----------------------------------------------------------------------------
\* A library caller that trains more documents and classifies longer
\* sentences: up to DeepDocs Train calls, queries of up to DeepLen characters.
DeepDocs == 4
DeepLen == 2

DeepSentences == UNION {[1..k -> Alphabet] : k \in 0..DeepLen}

InitDeep ==
    /\ pc = "api"
    /\ \E n \in 1..MaxSize : NewClassifier(n)
    /\ last = Call("NewClassifier", "", <<>>, <<>>, EmptyMap, FZero, FALSE)
    /\ trainCalls = 0
    /\ output = ""

DeepTrain ==
    /\ trainCalls < DeepDocs
    /\ \E class \in Labels, sentence \in Sentences : Train(class, sentence)
    /\ UNCHANGED <<pc, output>>

DeepClassify ==
    /\ \E sentence \in DeepSentences : Classify(sentence)
    /\ UNCHANGED <<pc, output>>

NextDeep == DeepTrain \/ ApiGetPrior \/ DeepClassify

SpecDeep == InitDeep /\ [][NextDeep]_vars

----------------------------------------------------------------------------
\* Exact rational arithmetic, <<numerator, denominator>> in lowest terms, and
\* other definitions used to state the properties.

RECURSIVE GCD(_, _)
GCD(a, b) == IF b = 0 THEN a ELSE GCD(b, a % b)

Norm(r) ==
    IF r[2] = 0 THEN <<IF r[1] > 0 THEN 1 ELSE 0, 0>>
    ELSE <<r[1] \div GCD(r[1], r[2]), r[2] \div GCD(r[1], r[2])>>

RDiv(a, b) == Norm(<<a, b>>)

RMul(r, s) == Norm(<<r[1] * s[1], r[2] * s[2]>>)

\* r > s for finite non-negative r, s
RGreater(r, s) == r[1] * s[2] > s[1] * r[2]


RECURSIVE SumDocuments(_, _)
SumDocuments(cls, labels) ==
    IF labels = {} THEN 0
    ELSE LET c == CHOOSE x \in labels : TRUE
         IN  cls[c].Documents + SumDocuments(cls, labels \ {c})

RECURSIVE SumValues(_, _)
SumValues(m, keys) ==
    IF keys = {} THEN 0
    ELSE LET k == CHOOSE x \in keys : TRUE
         IN  m[k] + SumValues(m, keys \ {k})

\* 0, the positions of the spaces of s, and Len(s) + 1
Boundaries(s) == {0} \cup {i \in 1..Len(s) : s[i] = " "} \cup {Len(s) + 1}

\* the k-th of them, counted from 0
Boundary(s, k) ==
    CHOOSE p \in Boundaries(s) : Cardinality({q \in Boundaries(s) : q < p}) = k

TokenCount(s) == Cardinality(Boundaries(s)) - 1

\* tokens i .. i+size-1 of s (i from 0) joined by single spaces: the part of s
\* from the start of token i to the end of token i+size-1
TokensJoined(s, size, i) ==
    SubSeq(s, Boundary(s, i) + 1, Boundary(s, i + size) - 1)

\* (frequency(g in c) + 1) / (classSize(c) + vocabSize), as a float64
ElementFactor(c, g) ==
    FDiv(Get(Classes[c].WordFreq, g) + 1,
         Len(Classes[c].Words) + Cardinality(DOMAIN UniqueWords))

\* result times one factor for each element words[i], i in idx, the factors
\* taken in any order
RECURSIVE PerElement(_, _, _, _)
PerElement(result, c, words, idx) ==
    IF idx = {} THEN {result}
    ELSE UNION {PerElement(FMul(result, ElementFactor(c, words[i])), c, words,
                           idx \ {i}) : i \in idx}

\* the score of class c in exact arithmetic: the prior times the exact factor
\* of each gram in grams
RECURSIVE ExactFactors(_, _)
ExactFactors(c, grams) ==
    IF grams = {} THEN <<1, 1>>
    ELSE LET g == CHOOSE x \in grams : TRUE
         IN  RMul(RDiv(Get(Classes[c].WordFreq, g) + 1,
                       Len(Classes[c].Words) + Cardinality(DOMAIN UniqueWords)),
                  ExactFactors(c, grams \ {g}))

ExactScore(c, grams) ==
    RMul(RDiv(Classes[c].Documents, Documents), ExactFactors(c, grams))

FOne == FDiv(1, 1)

\* 0 < x <= 1
InUnitInterval(x) ==
    /\ x.kind = "num"
    /\ x.m # <<0, 0, 0, 0>>
    /\ ~FGreater(x, FOne)

DocumentsOf(cls, c) == IF c \in DOMAIN cls THEN cls[c].Documents ELSE 0
WordsOf(cls, c) == IF c \in DOMAIN cls THEN cls[c].Words ELSE <<>>
WordFreqOf(cls, c) == IF c \in DOMAIN cls THEN cls[c].WordFreq ELSE EmptyMap

\* map after is map before with the count of key one higher
CountedOnce(after, before, key) ==
    /\ DOMAIN after = DOMAIN before \cup {key}
    /\ after[key] = Get(before, key) + 1
    /\ \A k \in DOMAIN before \ {key} : after[k] = before[k]

\* the step is a call Train(class, "") 
TrainEmptyStep ==
    /\ trainCalls' = trainCalls + 1
    /\ last'.name = "Train"
    /\ last'.sentence = <<>>

----------------------------------------------------------------------------
\* C1: Documents equals the number of Train calls made so far, and equals the
\* sum of Documents over all classes.
C1_DocumentsCount ==
    /\ Documents = trainCalls
    /\ Documents = SumDocuments(Classes, DOMAIN Classes)

C1_Witness ==
    /\ pc = "api"
    /\ trainCalls = MaxDocs
    /\ Cardinality(DOMAIN Classes) = 2
    /\ last.name = "Classify"

\* C2: for every class, the length of Words equals the sum of the values of
\* WordFreq.
C2_WordsMatchFrequencies ==
    \A c \in DOMAIN Classes :
        Len(Classes[c].Words) = SumValues(Classes[c].WordFreq, DOMAIN Classes[c].WordFreq)

C2_Witness ==
    \E c \in DOMAIN Classes :
        /\ Cardinality(DOMAIN Classes[c].WordFreq) >= 2
        /\ \E w \in DOMAIN Classes[c].WordFreq : Classes[c].WordFreq[w] >= 2

\* C3: the keys of UniqueWords are exactly the union of the keys of WordFreq
\* over all classes.
C3_VocabularyIsUnion ==
    DOMAIN UniqueWords = UNION {DOMAIN Classes[c].WordFreq : c \in DOMAIN Classes}

C3_Witness ==
    /\ pc = "api"
    /\ Cardinality(DOMAIN Classes) = 2
    /\ \E w \in DOMAIN UniqueWords :
          /\ w \in DOMAIN Classes["bom"].WordFreq
          /\ w \notin DOMAIN Classes["ruim"].WordFreq
    /\ \E w \in DOMAIN UniqueWords :
          /\ w \in DOMAIN Classes["ruim"].WordFreq
          /\ w \notin DOMAIN Classes["bom"].WordFreq

\* C4: SplitWords(size, sentence) is the reference tokenizer: with T the
\* sentence split on single spaces, the result is <<sentence>> when
\* Len(T) <= size, and otherwise the Len(T) - size + 1 windows of size tokens
\* joined by single spaces, from left to right.
C4_SplitWordsReference ==
    last.name \in {"SplitWords", "Train", "Classify"} =>
        LET s == last.sentence
            n == TokenCount(s)
        IN  IF n <= NSplit THEN last.words = <<s>>
            ELSE /\ Len(last.words) = n - NSplit + 1
                 /\ \A i \in 0..(n - NSplit) :
                        last.words[i + 1] = TokensJoined(s, NSplit, i)

C4_Witness ==
    /\ last.name = "SplitWords"
    /\ NSplit = 2
    /\ Len(last.words) = 3
    /\ \E i \in 1..3 : Len(last.words[i]) = 1

\* C5: Classify returns one entry per known class, the prior times one factor
\* (frequency + 1) / (classSize + vocabSize) per element of the tokenized
\* query, so that a gram occurring k times in the query gives k factors.
C5_OneFactorPerElement ==
    last.name = "Classify" =>
        /\ DOMAIN last.result = DOMAIN Classes
        /\ \A c \in DOMAIN Classes :
              last.result[c] \in
                  PerElement(Prior(c), c, last.words, 1..Len(last.words))

\* C6, as claimed: Train(class, "") counts one document and leaves Words,
\* WordFreq and UniqueWords unchanged.
C6_EmptySentenceNoGram ==
    [][TrainEmptyStep =>
        /\ Documents' = Documents + 1
        /\ DocumentsOf(Classes', last'.class) = DocumentsOf(Classes, last'.class) + 1
        /\ WordsOf(Classes', last'.class) = WordsOf(Classes, last'.class)
        /\ WordFreqOf(Classes', last'.class) = WordFreqOf(Classes, last'.class)
        /\ UniqueWords' = UniqueWords]_vars

\* C6, amended: Train(class, "") counts one document and one gram, the empty
\* string: it is appended to Words and counted once more in WordFreq and in
\* UniqueWords.
C6_EmptySentenceOneGram ==
    [][TrainEmptyStep =>
        /\ Documents' = Documents + 1
        /\ DocumentsOf(Classes', last'.class) = DocumentsOf(Classes, last'.class) + 1
        /\ WordsOf(Classes', last'.class) = Append(WordsOf(Classes, last'.class), <<>>)
        /\ CountedOnce(WordFreqOf(Classes', last'.class),
                       WordFreqOf(Classes, last'.class), <<>>)
        /\ CountedOnce(UniqueWords', UniqueWords, <<>>)]_vars

C6_Witness ==
    /\ last.name = "Train"
    /\ last.sentence = <<>>
    /\ Classes[last.class].Documents >= 2
    /\ Len(Classes[last.class].Words) >= 2

\* C7: once main has trained its corpus and classified its query, the score of
\* "ruim" is strictly greater than the score of "bom", both as the float64
\* values returned and in exact rational arithmetic.
C7_DemoRuimWins ==
    pc = "done" =>
        /\ DOMAIN last.result = {"bom", "ruim"}
        /\ FGreater(last.result["ruim"], last.result["bom"])
        /\ RGreater(ExactScore("ruim", Range(last.words)),
                    ExactScore("bom", Range(last.words)))

C7_Witness ==
    /\ pc = "done"
    /\ last.name = "Classify"
    /\ last.sentence = Query
    /\ trainCalls = Len(Corpus)

\* C8: every factor Classify computes has a positive denominator and lies in
\* (0, 1], and every score it returns is non-negative.
C8_FactorsInUnitInterval ==
    last.name = "Classify" =>
        \A c \in DOMAIN Classes :
            /\ Len(Classes[c].Words) + Cardinality(DOMAIN UniqueWords) > 0
            /\ LET wp == wProbabilities(Classes[c], last.words)
               IN  \A g \in DOMAIN wp :
                      InUnitInterval(wp[g])
            /\ last.result[c].kind = "num"

\* a factor that reaches the upper end, 1
C8_Witness ==
    /\ last.name = "Classify"
    /\ \E c \in DOMAIN Classes :
          \E g \in Range(last.words) :
              /\ Get(Classes[c].WordFreq, g) >= 2
              /\ wProbabilities(Classes[c], last.words)[g] = FOne

\* C9: a Classify or GetPrior call leaves NSplit, Documents, Classes and
\* UniqueWords unchanged, and two Classify calls of the same sentence with no
\* Train between them return the same mapping.
C9_ReadOnly ==
    [][/\ (last'.name \in {"Classify", "GetPrior"}) =>
            /\ NSplit' = NSplit
            /\ Documents' = Documents
            /\ Classes' = Classes
            /\ UniqueWords' = UniqueWords
       /\ (/\ last.name = "Classify"
           /\ last'.name = "Classify"
           /\ last'.sentence = last.sentence) =>
            last'.result = last.result]_vars

\* C10: every class has at least one document and no more than Documents, so
\* GetPrior of an existing class is in (0, 1]; Documents is 0 only when there
\* is no class, and Classify then returns the empty mapping.
C10_ClassesHaveDocuments ==
    /\ \A c \in DOMAIN Classes :
          /\ Classes[c].Documents >= 1
          /\ Documents >= Classes[c].Documents
          /\ InUnitInterval(Prior(c))
    /\ (Documents = 0) <=> (DOMAIN Classes = {})
    /\ (last.name = "GetPrior" /\ ~last.panicked) =>
          InUnitInterval(last.prior)
    /\ (last.name = "Classify" /\ Documents = 0) => last.result = EmptyMap

C10_Witness ==
    /\ last.name = "GetPrior"
    /\ ~last.panicked
    /\ last.prior = FDiv(1, 3)

====
